---- MODULE Spec2Model ----
(***************************************************************************)
(* Dance-practice video looper: the VideoPlayer component (loop range,     *)
(* looping flag, practice steps, active step), the Timeline component      *)
(* (three drag flags, pointer-to-time mapping) and the <video> element     *)
(* they drive (currentTime, paused).                                       *)
(*                                                                         *)
(* Times are whole ticks.  Every handler runs against the last committed   *)
(* render; the render and the effects it schedules are part of the         *)
(* handler's action.  The display-only states currentTime and playbackRate *)
(* are left out: no handler reads them.                                    *)
(***************************************************************************)
EXTENDS Integers, Sequences, FiniteSets, TLC

MaxTime == 2
MaxSteps == 2
MaxClock == 1

Times == 0..MaxTime
Durations == 1..MaxTime
TrackWidth == MaxTime
PointerXs == (0 - 1)..(TrackWidth + 1)
Handles == {"playhead", "start", "end"}
NoTime == 0 - 1
\* the number NaN, as a result of getSeekTime
NaN == 0 - 2
\* pointer and track geometry handed to getSeekTime on its own
ClientXs == 0..(TrackWidth + 3)
Lefts == 1..2
Widths == 0..TrackWidth
NoId == <<>>
NoName == "undefined"
NoAlert == "none"

VARIABLES phase, duration, isLooping, loopStart, loopEnd, isPlaying,
          steps, activeStepId, vTime, vPaused,
          isDraggingPlayhead, isDraggingStart, isDraggingEnd, now, last,
          timeUpdateListener

vars == <<phase, duration, isLooping, loopStart, loopEnd, isPlaying,
          steps, activeStepId, vTime, vPaused,
          isDraggingPlayhead, isDraggingStart, isDraggingEnd, now, last,
          timeUpdateListener>>

playerVars == <<duration, isLooping, loopStart, loopEnd, isPlaying, steps, activeStepId>>
dragVars == <<isDraggingPlayhead, isDraggingStart, isDraggingEnd>>

Min(a, b) == IF a < b THEN a ELSE b
Max(a, b) == IF a > b THEN a ELSE b

\* what the last handler did: its name, the time of the boundary or seek
\* command it computed from its input (NoTime: none), the seek it requested of
\* the engine (NoTime: none), whether it requested play, and the alert it
\* raised (NoAlert: none)
Did(ev, time, seek, play) ==
    [ev |-> ev, time |-> time, seek |-> seek, play |-> play, alert |-> NoAlert]
Alerted(ev, message) == [Did(ev, NoTime, NoTime, FALSE) EXCEPT !.alert = message]

----------------------------------------------------------------------------
(* Pure helpers *)

\* Math.max(0, Math.min(1, x / width)) * duration, 0 while duration is 0; with
\* width 0 the quotient is Infinity, -Infinity or NaN, and Math.min/Math.max
\* pass NaN on
GetSeekTime(x, width, dur) ==
    IF dur = 0 THEN 0
    ELSE IF width = 0 THEN (IF x > 0 THEN dur ELSE IF x < 0 THEN 0 ELSE NaN)
    ELSE (Max(0, Min(width, x)) * dur) \div width

\* video.currentTime = t: the engine clamps to the media once it knows it
EngineSeek(t) == IF phase = "ready" THEN Min(t, duration) ELSE t

\* video.play() with the position at the end of the media starts over
PlayFrom(t) == IF phase = "ready" /\ t = duration THEN 0 ELSE t

\* the tests of the boundary commands; a Lax variant accepts the other bound
\* itself, which the code does not
SetStartOk(time, end) == time < end
SetEndOk(time, start) == time > start
DragStartOkLax(time, end) == time <= end
DragStartOk(time, end) == time < end
DragEndOkLax(time, start) == time >= start
DragEndOk(time, start) == time > start

\* the loop test of handleTimeUpdate; the Strict variant misses the position
\* exactly at loopEnd
LoopHitStrict(looping, current, end) == looping /\ current > end
LoopHit(looping, current, end) == looping /\ current >= end

\* variants of the sync effect: one forgets the end, one writes every step
SyncStartOnly(s, aid, ls, le) ==
    IF aid # NoId
    THEN [i \in DOMAIN s |-> IF s[i].id = aid THEN [s[i] EXCEPT !.start = ls] ELSE s[i]]
    ELSE s

SyncEveryStep(s, aid, ls, le) ==
    IF aid # NoId
    THEN [i \in DOMAIN s |-> [s[i] EXCEPT !.start = ls, !.end = le]]
    ELSE s

\* the "Sync active step with loop points" effect body
SyncActiveStep(s, aid, ls, le) ==
    IF aid # NoId
    THEN [i \in DOMAIN s |->
            IF s[i].id = aid THEN [s[i] EXCEPT !.start = ls, !.end = le] ELSE s[i]]
    ELSE s

\* the effect runs after a render in which one of its dependencies changed
AfterRender(s) ==
    IF <<loopStart', loopEnd', activeStepId'>> # <<loopStart, loopEnd, activeStepId>>
    THEN SyncActiveStep(s, activeStepId', loopStart', loopEnd')
    ELSE s

\* handleTimeUpdate as registered on the video: the isLooping, loopStart and
\* loopEnd of the render that registered it
Closure(looping, start, end) == [isLooping |-> looping, loopStart |-> start, loopEnd |-> end]

\* variant: loopStart left out of the dependencies
TimeUpdateEffectNoStart(listener) ==
    IF <<isLooping', loopEnd'>> # <<isLooping, loopEnd>>
    THEN Closure(isLooping', loopStart', loopEnd')
    ELSE listener

\* the timeupdate effect registers the handler anew after a render in which
\* isLooping, loopStart or loopEnd changed
TimeUpdateEffect(listener) ==
    IF <<isLooping', loopStart', loopEnd'>> # <<isLooping, loopStart, loopEnd>>
    THEN Closure(isLooping', loopStart', loopEnd')
    ELSE listener

Mounted == phase # "upload"

----------------------------------------------------------------------------
Init ==
    /\ phase = "upload"
    /\ duration = 0
    /\ isLooping = FALSE
    /\ loopStart = 0
    /\ loopEnd = 0
    /\ isPlaying = FALSE
    /\ steps = <<>>
    /\ activeStepId = NoId
    /\ vTime = 0
    /\ vPaused = TRUE
    /\ isDraggingPlayhead = FALSE
    /\ isDraggingStart = FALSE
    /\ isDraggingEnd = FALSE
    /\ now = 0
    /\ last = Did("init", NoTime, NoTime, FALSE)
    /\ timeUpdateListener = Closure(FALSE, 0, 0)

\* variant: the components stay mounted across sources and only the videoUrl
\* effect runs
KeptPlayer ==
    /\ duration' = 0
    /\ loopStart' = 0
    /\ loopEnd' = 0
    /\ isPlaying' = FALSE
    /\ vTime' = 0
    /\ vPaused' = TRUE
    /\ UNCHANGED <<isLooping, steps, activeStepId>>
    /\ UNCHANGED <<isDraggingPlayhead, isDraggingStart, isDraggingEnd>>
    /\ timeUpdateListener' = TimeUpdateEffect(timeUpdateListener)

\* a fresh VideoPlayer and Timeline: useState initial values, then the
\* videoUrl effect
FreshPlayer ==
    /\ duration' = 0
    /\ isLooping' = FALSE
    /\ loopStart' = 0
    /\ loopEnd' = 0
    /\ isPlaying' = FALSE
    /\ steps' = <<>>
    /\ activeStepId' = NoId
    /\ vTime' = 0
    /\ vPaused' = TRUE
    /\ isDraggingPlayhead' = FALSE
    /\ isDraggingStart' = FALSE
    /\ isDraggingEnd' = FALSE
    /\ timeUpdateListener' = Closure(FALSE, 0, 0)

HandleFileChange ==
    /\ phase = "upload"
    /\ phase' = "loading"
    /\ FreshPlayer
    /\ last' = Did("filechange", NoTime, NoTime, FALSE)
    /\ UNCHANGED now

HandleNewVideo ==
    /\ Mounted
    /\ phase' = "upload"
    /\ FreshPlayer
    /\ last' = Did("newvideo", NoTime, NoTime, FALSE)
    /\ UNCHANGED now

HandleLoadedMetadata ==
    /\ phase = "loading"
    /\ \E d \in Durations :
        /\ phase' = "ready"
        /\ duration' = d
        /\ loopEnd' = d
        /\ vTime' = Min(vTime, d)
    /\ UNCHANGED <<loopStart, activeStepId>>
    /\ steps' = AfterRender(steps)
    /\ last' = Did("loadedmetadata", NoTime, NoTime, FALSE)
    /\ UNCHANGED <<isLooping, isPlaying, vPaused, dragVars, now>>
    /\ timeUpdateListener' = TimeUpdateEffect(timeUpdateListener)

\* the engine plays on
Advance ==
    /\ phase = "ready"
    /\ ~vPaused
    /\ vTime < duration
    /\ \E t \in (vTime + 1)..duration : vTime' = t
    /\ last' = Did("advance", NoTime, NoTime, FALSE)
    /\ UNCHANGED <<phase, playerVars, vPaused, dragVars, now>>
    /\ timeUpdateListener' = TimeUpdateEffect(timeUpdateListener)

HandleTimeUpdate ==
    /\ phase = "ready"
    /\ IF LoopHit(timeUpdateListener.isLooping, vTime, timeUpdateListener.loopEnd)
       THEN /\ vTime' = EngineSeek(timeUpdateListener.loopStart)
            /\ last' = Did("timeupdate", vTime, timeUpdateListener.loopStart, FALSE)
       ELSE /\ vTime' = vTime
            /\ last' = Did("timeupdate", vTime, NoTime, FALSE)
    /\ UNCHANGED <<phase, playerVars, vPaused, dragVars, now>>
    /\ timeUpdateListener' = TimeUpdateEffect(timeUpdateListener)

TogglePlayPause ==
    /\ Mounted
    /\ IF vPaused
       THEN /\ vPaused' = FALSE
            /\ isPlaying' = TRUE
            /\ vTime' = PlayFrom(vTime)
            /\ last' = Did("toggleplay", NoTime, NoTime, TRUE)
       ELSE /\ vPaused' = TRUE
            /\ isPlaying' = FALSE
            /\ vTime' = vTime
            /\ last' = Did("toggleplay", NoTime, NoTime, FALSE)
    /\ UNCHANGED <<phase, duration, isLooping, loopStart, loopEnd, steps, activeStepId,
                   dragVars, now>>
    /\ timeUpdateListener' = TimeUpdateEffect(timeUpdateListener)

\* togglePlayPause on a paused video whose play() promise is rejected (source
\* not supported, playback not allowed): the element stays paused, the
\* rejection goes to console.error, setIsPlaying(true) has run
TogglePlayRejected ==
    /\ Mounted
    /\ vPaused
    /\ isPlaying' = TRUE
    /\ last' = Did("playrejected", NoTime, NoTime, TRUE)
    /\ UNCHANGED <<phase, duration, isLooping, loopStart, loopEnd, steps, activeStepId,
                   vTime, vPaused, dragVars, now>>
    /\ timeUpdateListener' = TimeUpdateEffect(timeUpdateListener)

\* variant: the button only turns looping on
TurnedOn(looping) == TRUE
\* the Toggle Loop button: setIsLooping(!isLooping)
Toggled(looping) == ~looping

ToggleLooping ==
    /\ Mounted
    /\ isLooping' = Toggled(isLooping)
    /\ last' = Did("toggleloop", NoTime, NoTime, FALSE)
    /\ UNCHANGED <<phase, duration, loopStart, loopEnd, isPlaying, steps, activeStepId,
                   vTime, vPaused, dragVars, now>>
    /\ timeUpdateListener' = TimeUpdateEffect(timeUpdateListener)

HandleSetLoopStart ==
    /\ Mounted
    /\ loopStart' = IF SetStartOk(vTime, loopEnd) THEN vTime ELSE loopStart
    /\ UNCHANGED <<loopEnd, activeStepId>>
    /\ steps' = AfterRender(steps)
    /\ last' = Did("setstart", vTime, NoTime, FALSE)
    /\ UNCHANGED <<phase, duration, isLooping, isPlaying, vTime, vPaused, dragVars, now>>
    /\ timeUpdateListener' = TimeUpdateEffect(timeUpdateListener)

HandleSetLoopEnd ==
    /\ Mounted
    /\ loopEnd' = IF SetEndOk(vTime, loopStart) THEN vTime ELSE loopEnd
    /\ UNCHANGED <<loopStart, activeStepId>>
    /\ steps' = AfterRender(steps)
    /\ last' = Did("setend", vTime, NoTime, FALSE)
    /\ UNCHANGED <<phase, duration, isLooping, isPlaying, vTime, vPaused, dragVars, now>>
    /\ timeUpdateListener' = TimeUpdateEffect(timeUpdateListener)

HandleReset ==
    /\ Mounted
    /\ vTime' = EngineSeek(loopStart)
    /\ last' = Did("reset", NoTime, loopStart, FALSE)
    /\ UNCHANGED <<phase, playerVars, vPaused, dragVars, now>>
    /\ timeUpdateListener' = TimeUpdateEffect(timeUpdateListener)

----------------------------------------------------------------------------
(* Timeline *)

\* variant: listeners attached for the playhead only
DraggingPlayheadOnly == isDraggingPlayhead
\* the document listeners are attached while a flag is set
Dragging == isDraggingPlayhead \/ isDraggingStart \/ isDraggingEnd

HandleTimelineClick ==
    /\ Mounted
    /\ \E x \in PointerXs :
        LET time == GetSeekTime(x, TrackWidth, duration) IN
        /\ vTime' = EngineSeek(time)
        /\ last' = Did("click", time, time, FALSE)
    /\ UNCHANGED <<phase, playerVars, vPaused, dragVars, now>>
    /\ timeUpdateListener' = TimeUpdateEffect(timeUpdateListener)

MouseDownOn(h) ==
    /\ Mounted
    /\ isDraggingPlayhead' = (IF h = "playhead" THEN TRUE ELSE isDraggingPlayhead)
    /\ isDraggingStart' = (IF h = "start" THEN TRUE ELSE isDraggingStart)
    /\ isDraggingEnd' = (IF h = "end" THEN TRUE ELSE isDraggingEnd)
    /\ last' = Did("mousedown", NoTime, NoTime, FALSE)
    /\ UNCHANGED <<phase, playerVars, vTime, vPaused, now>>
    /\ timeUpdateListener' = TimeUpdateEffect(timeUpdateListener)

HandleMouseDown == \E h \in Handles : MouseDownOn(h)

\* the two handles that edit the loop
LoopHandles == {"start", "end"}
HandleLoopHandleDown == \E h \in LoopHandles : MouseDownOn(h)

MouseMoveAt(x) ==
    /\ Mounted
    /\ Dragging
    /\ LET time == GetSeekTime(x, TrackWidth, duration) IN
        IF isDraggingPlayhead
        THEN /\ vTime' = EngineSeek(time)
             /\ last' = Did("mousemove", time, time, FALSE)
             /\ UNCHANGED <<loopStart, loopEnd, activeStepId, steps>>
        ELSE IF isDraggingStart
        THEN /\ loopStart' = (IF DragStartOk(time, loopEnd) THEN time ELSE loopStart)
             /\ UNCHANGED <<loopEnd, activeStepId>>
             /\ steps' = AfterRender(steps)
             /\ last' = Did("mousemove", time, NoTime, FALSE)
             /\ UNCHANGED vTime
        ELSE /\ loopEnd' = (IF DragEndOk(time, loopStart) THEN time ELSE loopEnd)
             /\ UNCHANGED <<loopStart, activeStepId>>
             /\ steps' = AfterRender(steps)
             /\ last' = Did("mousemove", time, NoTime, FALSE)
             /\ UNCHANGED vTime
    /\ UNCHANGED <<phase, duration, isLooping, isPlaying, vPaused, dragVars, now>>
    /\ timeUpdateListener' = TimeUpdateEffect(timeUpdateListener)

HandleMouseMove == \E x \in PointerXs : MouseMoveAt(x)

HandleMouseUp ==
    /\ Mounted
    /\ Dragging
    /\ isDraggingPlayhead' = FALSE
    /\ isDraggingStart' = FALSE
    /\ isDraggingEnd' = FALSE
    /\ last' = Did("mouseup", NoTime, NoTime, FALSE)
    /\ UNCHANGED <<phase, playerVars, vTime, vPaused, now>>
    /\ timeUpdateListener' = TimeUpdateEffect(timeUpdateListener)

\* a handle gesture released over the timeline: the document mouseup listener
\* runs, then the browser dispatches the click of the gesture at the common
\* ancestor of the press and the release, and the click bubbles to the root's
\* onClick (the handles stop the propagation of mousedown only)
HandleMouseUpAndClick ==
    /\ Mounted
    /\ Dragging
    /\ isDraggingPlayhead' = FALSE
    /\ isDraggingStart' = FALSE
    /\ isDraggingEnd' = FALSE
    /\ \E x \in 0..TrackWidth :
        LET time == GetSeekTime(x, TrackWidth, duration) IN
        /\ vTime' = EngineSeek(time)
        /\ last' = Did("mouseupclick", time, time, FALSE)
    /\ UNCHANGED <<phase, playerVars, vPaused, now>>
    /\ timeUpdateListener' = TimeUpdateEffect(timeUpdateListener)

----------------------------------------------------------------------------
(* Practice steps *)

\* a step; its name is text the model does not read, or NoName
NewStep(id, name, start, end) == [id |-> id, name |-> name, start |-> start, end |-> end]

\* new Date().toISOString() for Add Step, the same with "-index" for an import
AddId(t) == <<t>>
ImportId(t, index) == <<t, index>>

\* the ranges of the entries of a steps file that has them
ImportEntries == {[start |-> 0, end |-> 1], [start |-> MaxTime, end |-> 0]}

\* an item of the parsed array: an object with some of the keys name, start
\* and end (NoName, NoTime: key absent), or a value that is not an object
Item(object, name, start, end) ==
    [object |-> object, name |-> name, start |-> start, end |-> end]
FileItems ==
    {Item(TRUE, "imported", e.start, e.end) : e \in ImportEntries}
        \cup {Item(TRUE, NoName, 0, 1), Item(TRUE, "imported", NoTime, 1),
              Item(TRUE, "imported", 0, NoTime), Item(FALSE, NoName, NoTime, NoTime)}

\* the text of the chosen file: not JSON, JSON that is not an array, or an array
StepsFiles ==
    {[parses |-> FALSE, isArray |-> FALSE, items |-> <<>>],
     [parses |-> TRUE, isArray |-> FALSE, items |-> <<>>]}
        \cup {[parses |-> TRUE, isArray |-> TRUE, items |-> s] :
                s \in UNION {[1..n -> FileItems] : n \in 0..MaxSteps}}

\* 'name' in item && 'start' in item && 'end' in item
HasKeys(item) == item.name # NoName /\ item.start # NoTime /\ item.end # NoTime

\* variant: a file passes when some item has the three keys
FileCheckSome(file) ==
    IF ~file.parses THEN "failed"
    ELSE IF file.isArray /\ \E i \in DOMAIN file.items :
                               file.items[i].object /\ HasKeys(file.items[i])
    THEN "load"
    ELSE "invalid"

\* the outcome of reader.onload: JSON.parse, Array.isArray, data.every (which
\* stops at the first item without a key, and throws at a non-object reached
\* before that)
FileCheck(file) ==
    IF ~file.parses THEN "failed"
    ELSE IF ~file.isArray THEN "invalid"
    ELSE LET bad == {i \in DOMAIN file.items :
                        ~file.items[i].object \/ ~HasKeys(file.items[i])} IN
         IF bad = {} THEN "load"
         ELSE LET first == CHOOSE i \in bad : \A j \in bad : i <= j IN
              IF file.items[first].object THEN "invalid" ELSE "failed"

AlertText(outcome) ==
    IF outcome = "invalid" THEN "Invalid steps file format."
    ELSE "Failed to read or parse the steps file."

StepIds(s) == {s[i].id : i \in DOMAIN s}
WithoutId(s, id) == SelectSeq(s, LAMBDA st : st.id # id)

\* variant: togglePlayPause called whatever the video does
AlwaysResume(paused) == TRUE
\* handlePlayStep resumes playback only when the video is paused
ShouldResume(paused) == paused

\* variant: every delete treated as the delete of the active step
AnyStepActive(aid, id) == TRUE
\* handleDeleteStep's test for the active step
IsActiveStep(aid, id) == aid = id

\* the clock moves on between two readings
Tick ==
    /\ now < MaxClock
    /\ now' = now + 1
    /\ last' = Did("tick", NoTime, NoTime, FALSE)
    /\ UNCHANGED <<phase, playerVars, vTime, vPaused, dragVars>>
    /\ timeUpdateListener' = TimeUpdateEffect(timeUpdateListener)

HandleAddStep ==
    /\ Mounted
    /\ Len(steps) < MaxSteps
    /\ steps' = Append(steps, NewStep(AddId(now), "Step", loopStart, loopEnd))
    /\ last' = Did("addstep", NoTime, NoTime, FALSE)
    /\ UNCHANGED <<phase, duration, isLooping, loopStart, loopEnd, isPlaying, activeStepId,
                   vTime, vPaused, dragVars, now>>
    /\ timeUpdateListener' = TimeUpdateEffect(timeUpdateListener)

PlayStepAt(i) ==
    /\ Mounted
    /\ i \in DOMAIN steps
    /\ LET step == steps[i] IN
        /\ activeStepId' = step.id
        /\ loopStart' = step.start
        /\ loopEnd' = step.end
        /\ isLooping' = TRUE
        /\ IF ShouldResume(vPaused)
           THEN IF vPaused
                THEN /\ vPaused' = FALSE
                     /\ isPlaying' = TRUE
                     /\ vTime' = PlayFrom(EngineSeek(step.start))
                     /\ last' = Did("playstep", NoTime, step.start, TRUE)
                ELSE /\ vPaused' = TRUE
                     /\ isPlaying' = FALSE
                     /\ vTime' = EngineSeek(step.start)
                     /\ last' = Did("playstep", NoTime, step.start, FALSE)
           ELSE /\ vTime' = EngineSeek(step.start)
                /\ last' = Did("playstep", NoTime, step.start, FALSE)
                /\ UNCHANGED <<vPaused, isPlaying>>
    /\ steps' = AfterRender(steps)
    /\ UNCHANGED <<phase, duration, dragVars, now>>
    /\ timeUpdateListener' = TimeUpdateEffect(timeUpdateListener)

HandlePlayStep == \E i \in 1..MaxSteps : PlayStepAt(i)

DeleteStepAt(i) ==
    /\ Mounted
    /\ i \in DOMAIN steps
    /\ LET id == steps[i].id IN
        /\ steps' = WithoutId(steps, id)
        /\ IF IsActiveStep(activeStepId, id)
           THEN /\ activeStepId' = NoId
                /\ isLooping' = FALSE
           ELSE UNCHANGED <<activeStepId, isLooping>>
    /\ last' = Did("deletestep", NoTime, NoTime, FALSE)
    /\ UNCHANGED <<phase, duration, loopStart, loopEnd, isPlaying, vTime, vPaused, dragVars, now>>
    /\ timeUpdateListener' = TimeUpdateEffect(timeUpdateListener)

HandleDeleteStep == \E i \in 1..MaxSteps : DeleteStepAt(i)

RenameStepAt(i) ==
    /\ Mounted
    /\ i \in DOMAIN steps
    /\ steps' = [steps EXCEPT ![i].name = "renamed"]
    /\ last' = Did("rename", NoTime, NoTime, FALSE)
    /\ UNCHANGED <<phase, duration, isLooping, loopStart, loopEnd, isPlaying, activeStepId,
                   vTime, vPaused, dragVars, now>>
    /\ timeUpdateListener' = TimeUpdateEffect(timeUpdateListener)

HandleUpdateStepName == \E i \in 1..MaxSteps : RenameStepAt(i)

HandleLoadSteps(importedSteps) ==
    /\ steps' = [index \in DOMAIN importedSteps |->
                    NewStep(ImportId(now, index - 1), importedSteps[index].name,
                            importedSteps[index].start, importedSteps[index].end)]
    /\ last' = Did("loadsteps", NoTime, NoTime, FALSE)

\* the Load button: the chosen file is read, checked, and handed over or
\* refused with an alert
HandleFileSelect ==
    /\ Mounted
    /\ \E file \in StepsFiles :
        IF FileCheck(file) = "load"
        THEN HandleLoadSteps(file.items)
        ELSE /\ last' = Alerted("fileselect", AlertText(FileCheck(file)))
             /\ UNCHANGED steps
    /\ UNCHANGED <<phase, duration, isLooping, loopStart, loopEnd, isPlaying, activeStepId,
                   vTime, vPaused, dragVars, now>>
    /\ timeUpdateListener' = TimeUpdateEffect(timeUpdateListener)

----------------------------------------------------------------------------
(* getSeekTime on its own: any pointer, any track rectangle, any duration *)

InitSeekTime ==
    /\ phase = "upload"
    /\ duration = 0
    /\ isLooping = FALSE
    /\ loopStart = 0
    /\ loopEnd = 0
    /\ isPlaying = FALSE
    /\ steps = <<>>
    /\ activeStepId = NoId
    /\ vTime = 0
    /\ vPaused = TRUE
    /\ isDraggingPlayhead = FALSE
    /\ isDraggingStart = FALSE
    /\ isDraggingEnd = FALSE
    /\ now = 0
    /\ timeUpdateListener = Closure(FALSE, 0, 0)
    /\ \E cx \in ClientXs, l \in Lefts, w \in Widths, d \in 0..MaxTime :
        last = [ev |-> "pointer", clientX |-> cx, left |-> l, width |-> w,
                duration |-> d, time |-> NoTime]

GetSeekTimeCall ==
    /\ last.ev = "pointer"
    /\ last' = [last EXCEPT !.ev = "getSeekTime",
                            !.time = GetSeekTime(last.clientX - last.left, last.width,
                                                 last.duration)]
    /\ UNCHANGED <<phase, playerVars, vTime, vPaused, dragVars, now>>
    /\ timeUpdateListener' = TimeUpdateEffect(timeUpdateListener)

----------------------------------------------------------------------------
(* Specifications *)

\* upload, playback, loop editing and the timeline
NextEdit ==
    \/ HandleFileChange
    \/ HandleNewVideo
    \/ HandleLoadedMetadata
    \/ Advance
    \/ HandleTimeUpdate
    \/ TogglePlayPause
    \/ TogglePlayRejected
    \/ ToggleLooping
    \/ HandleSetLoopStart
    \/ HandleSetLoopEnd
    \/ HandleReset
    \/ HandleTimelineClick
    \/ HandleMouseDown
    \/ HandleMouseMove
    \/ HandleMouseUp
    \/ HandleMouseUpAndClick

\* loop editing with the practice steps made in the session; the pointer goes
\* down on the loop handles only (NextEdit has the playhead)
NextSteps ==
    \/ HandleFileChange
    \/ HandleNewVideo
    \/ HandleLoadedMetadata
    \/ Advance
    \/ HandleTimeUpdate
    \/ TogglePlayPause
    \/ ToggleLooping
    \/ HandleSetLoopStart
    \/ HandleSetLoopEnd
    \/ HandleReset
    \/ HandleTimelineClick
    \/ HandleLoopHandleDown
    \/ HandleMouseMove
    \/ HandleMouseUp
    \/ Tick
    \/ HandleAddStep
    \/ HandlePlayStep
    \/ HandleDeleteStep

\* every handler, steps files included
Next ==
    \/ HandleFileChange
    \/ HandleNewVideo
    \/ HandleLoadedMetadata
    \/ Advance
    \/ HandleTimeUpdate
    \/ TogglePlayPause
    \/ TogglePlayRejected
    \/ ToggleLooping
    \/ HandleSetLoopStart
    \/ HandleSetLoopEnd
    \/ HandleReset
    \/ HandleTimelineClick
    \/ HandleMouseDown
    \/ HandleMouseMove
    \/ HandleMouseUp
    \/ HandleMouseUpAndClick
    \/ Tick
    \/ HandleAddStep
    \/ HandlePlayStep
    \/ HandleDeleteStep
    \/ HandleUpdateStepName
    \/ HandleFileSelect

\* the steps sidebar: steps added, renamed, played, deleted and imported
NextSidebar ==
    \/ HandleFileChange
    \/ HandleNewVideo
    \/ HandleLoadedMetadata
    \/ Tick
    \/ HandleAddStep
    \/ HandlePlayStep
    \/ HandleDeleteStep
    \/ HandleUpdateStepName
    \/ HandleFileSelect

SpecEdit == Init /\ [][NextEdit]_vars
SpecSteps == Init /\ [][NextSteps]_vars
SpecSeekTime == InitSeekTime /\ [][GetSeekTimeCall]_vars
SpecSidebar == Init /\ [][NextSidebar]_vars
Spec == Init /\ [][Next]_vars

----------------------------------------------------------------------------
(* Properties *)

RangeOk == 0 <= loopStart /\ loopStart < loopEnd /\ loopEnd <= duration

\* the branch of handleMouseMove a sample is routed to
StartSample == ~isDraggingPlayhead /\ isDraggingStart
EndSample == ~isDraggingPlayhead /\ ~isDraggingStart /\ isDraggingEnd

LoopEdits == {"setstart", "setend", "mousemove", "loadedmetadata"}

\* C1: once the metadata of the source is known, every sequence of Set Start,
\* Set End and handle drag samples (any pointer position, any engine position)
\* keeps 0 <= loopStart < loopEnd <= duration, after every single event.
C1_RangeKeptByEdits == phase = "ready" => RangeOk

C1_Witness ==
    /\ phase = "ready"
    /\ last.ev = "mousemove"
    /\ StartSample
    /\ last.time = loopStart
    /\ loopStart > 0
    /\ loopEnd = loopStart + 1

\* C2: with bookmark activation among the events, the loop range still
\* satisfies 0 <= loopStart < loopEnd <= duration whenever the duration is
\* known: a mutation that would break it is rejected.
C2_RangeKeptByEveryMutator ==
    phase = "ready" => (loopStart >= 0 /\ loopEnd > loopStart /\ duration >= loopEnd)

\* C3: a position notification requests a seek exactly when isLooping holds
\* and the reported position is at or past loopEnd; the seek goes to the
\* current loopStart; otherwise the position is left alone.
C3_SeekIffLoopHit ==
    [][last'.ev = "timeupdate" =>
          /\ (last'.seek # NoTime) <=> (isLooping /\ vTime >= loopEnd)
          /\ last'.seek # NoTime => (last'.seek = loopStart /\ vTime' = EngineSeek(loopStart))
          /\ last'.seek = NoTime => vTime' = vTime]_vars

C3_Witness ==
    /\ last.ev = "timeupdate"
    /\ last.seek = loopStart
    /\ last.time >= loopEnd
    /\ isLooping
    /\ vTime = loopStart
    /\ RangeOk

\* C4: one seek per boundary crossing: the notification that follows a loop
\* seek, with no playback progress in between, requests no further seek.
C4_OneSeekPerCrossing ==
    [][(last.ev = "timeupdate" /\ last.seek # NoTime /\ last'.ev = "timeupdate")
          => last'.seek = NoTime]_vars

\* C5: at most one of the three handles is captured at any time.
C5_AtMostOneCaptured ==
    Cardinality({h \in Handles :
        \/ h = "playhead" /\ isDraggingPlayhead
        \/ h = "start" /\ isDraggingStart
        \/ h = "end" /\ isDraggingEnd}) <= 1

\* C6: a start sample or Set Start at a time >= loopEnd, and an end sample or
\* Set End at a time <= loopStart, changes neither bound, nor isLooping, nor
\* any stored step.
C6_InvalidBoundaryIsNoOp ==
    [][/\ (last'.ev = "setstart" /\ vTime >= loopEnd)
            => UNCHANGED <<loopStart, loopEnd, isLooping, steps>>
       /\ (last'.ev = "setend" /\ vTime <= loopStart)
            => UNCHANGED <<loopStart, loopEnd, isLooping, steps>>
       /\ (last'.ev = "mousemove" /\ StartSample /\ last'.time >= loopEnd)
            => UNCHANGED <<loopStart, loopEnd, isLooping, steps>>
       /\ (last'.ev = "mousemove" /\ EndSample /\ last'.time <= loopStart)
            => UNCHANGED <<loopStart, loopEnd, isLooping, steps>>]_vars

C6_Witness ==
    /\ phase = "ready"
    /\ last.ev = "mousemove"
    /\ StartSample
    /\ last.time >= loopEnd
    /\ loopStart > 0
    /\ loopStart < loopEnd
    /\ Len(steps) > 0

\* C7: while a step is active, every change of loopStart or loopEnd, by any
\* handler, leaves the step whose id is activeStepId with the range
\* (loopStart, loopEnd).
C7_ActiveStepMirrorsLoop ==
    [][(activeStepId' # NoId /\ <<loopStart', loopEnd'>> # <<loopStart, loopEnd>>)
          => \A i \in DOMAIN steps' :
                steps'[i].id = activeStepId'
                    => (steps'[i].start = loopStart' /\ steps'[i].end = loopEnd')]_vars

C7_Witness ==
    /\ phase = "ready"
    /\ last.ev \in {"mousemove", "setend"}
    /\ last.time = loopEnd
    /\ last.seek = NoTime
    /\ activeStepId # NoId
    /\ \E i \in DOMAIN steps :
        /\ steps[i].id = activeStepId
        /\ steps[i].start = loopStart
        /\ steps[i].end = loopEnd
    /\ \E j \in DOMAIN steps : steps[j].end # loopEnd

\* C8: a loop edit, and the activation of another step, change no step whose
\* id differs from the (new) activeStepId, and neither add nor drop a step.
C8_OnlyActiveStepWritten ==
    [][last'.ev \in LoopEdits \cup {"playstep"} =>
          /\ Len(steps') = Len(steps)
          /\ \A i \in DOMAIN steps :
                steps[i].id # activeStepId' => steps'[i] = steps[i]]_vars

C8_Witness ==
    /\ phase = "ready"
    /\ Len(steps) = 2
    /\ steps[1].id # steps[2].id
    /\ activeStepId = steps[2].id
    /\ last.ev = "mousemove"
    /\ EndSample
    /\ last.time = loopEnd
    /\ steps[2].end = loopEnd
    /\ steps[1].end # loopEnd

\* C9: playing a step makes it the active step, loads its stored range into
\* (loopStart, loopEnd), turns looping on, requests a seek to its start and
\* requests play exactly when the video was paused.
C9_PlayStepActivates ==
    [][last'.ev = "playstep" =>
          \E i \in DOMAIN steps :
            /\ activeStepId' = steps[i].id
            /\ loopStart' = steps[i].start
            /\ loopEnd' = steps[i].end
            /\ isLooping'
            /\ last'.seek = steps[i].start
            /\ last'.play <=> vPaused
            /\ ~vPaused'
            /\ isPlaying' = (isPlaying \/ vPaused)]_vars

C9_Witness ==
    /\ phase = "ready"
    /\ last.ev = "playstep"
    /\ ~last.play
    /\ last.seek = loopStart
    /\ loopStart > 0
    /\ isLooping
    /\ \E i \in DOMAIN steps : steps[i].id = activeStepId

\* C10: deleting the active step clears activeStepId and turns looping off;
\* deleting another step changes neither; no delete changes loopStart or
\* loopEnd.
C10_DeleteStepEffect ==
    [][last'.ev = "deletestep" =>
          /\ UNCHANGED <<loopStart, loopEnd>>
          /\ IF activeStepId \in StepIds(steps) \ StepIds(steps')
             THEN activeStepId' = NoId /\ ~isLooping'
             ELSE UNCHANGED <<activeStepId, isLooping>>]_vars

C10_Witness ==
    /\ phase = "ready"
    /\ last.ev = "deletestep"
    /\ activeStepId # NoId
    /\ isLooping
    /\ Len(steps) = 1
    /\ steps[1].id = activeStepId

\* C11: loading a new source leaves loopStart = 0, loopEnd = duration,
\* isLooping false, no handle captured and no active step, whatever the
\* session before it left; the metadata of the source then moves loopEnd to
\* the duration it reports.
C11_NewSourceResets ==
    [][/\ last'.ev = "filechange" =>
            /\ loopStart' = 0
            /\ loopEnd' = duration'
            /\ ~isLooping'
            /\ ~Dragging'
            /\ activeStepId' = NoId
            /\ steps' = <<>>
       /\ last'.ev = "loadedmetadata" => loopEnd' = duration']_vars

C11_Witness ==
    /\ last.ev = "filechange"
    /\ phase = "loading"
    /\ now = MaxClock
    /\ loopStart = 0
    /\ loopEnd = duration
    /\ ~isLooping
    /\ ~Dragging
    /\ activeStepId = NoId

\* C12: while a handle is captured the document listeners are attached, so a
\* mouseup anywhere is handled; and the mouseup handler leaves no handle
\* captured, whichever and however many were.
C12_MouseUpReleases ==
    /\ []((isDraggingPlayhead \/ isDraggingStart \/ isDraggingEnd) => ENABLED HandleMouseUp)
    /\ [][last'.ev \in {"mouseup", "mouseupclick"} =>
            /\ isDraggingPlayhead \/ isDraggingStart \/ isDraggingEnd
            /\ ~isDraggingPlayhead' /\ ~isDraggingStart' /\ ~isDraggingEnd'
            /\ UNCHANGED <<loopStart, loopEnd, isLooping>>
            /\ last'.ev = "mouseup" => UNCHANGED vTime]_vars

C12_Witness ==
    /\ last.ev = "mouseup"
    /\ phase = "ready"
    /\ ~isDraggingPlayhead /\ ~isDraggingStart /\ ~isDraggingEnd
    /\ loopStart > 0

\* C13: Toggle Loop flips isLooping and changes neither loopStart nor loopEnd
\* nor activeStepId nor any stored step, so the range set while looping was on
\* is still there while it is off.
C13_ToggleLoopingFrame ==
    [][last'.ev = "toggleloop" =>
          /\ isLooping' = ~isLooping
          /\ UNCHANGED <<loopStart, loopEnd, activeStepId, steps>>]_vars

C13_Witness ==
    /\ last.ev = "toggleloop"
    /\ phase = "ready"
    /\ ~isLooping
    /\ loopStart > 0
    /\ RangeOk
    /\ \E i \in DOMAIN steps :
        /\ steps[i].id = activeStepId
        /\ steps[i].start = loopStart
        /\ steps[i].end = loopEnd

\* C14: a steps file that is not an array, or in which an item lacks name,
\* start or end, is refused as a whole: an alert is raised and the steps, the
\* active step and the loop state stay as they were; no step without its
\* three fields ever enters the list.
C14_BadFileRejected ==
    /\ [](\A i \in DOMAIN steps :
            steps[i].name # NoName /\ steps[i].start # NoTime /\ steps[i].end # NoTime)
    /\ [][last'.ev = "fileselect" =>
            /\ last'.alert # NoAlert
            /\ UNCHANGED <<steps, activeStepId, isLooping, loopStart, loopEnd>>]_vars
    /\ [][last'.alert # NoAlert => last'.ev = "fileselect"]_vars

C14_Witness ==
    /\ last.ev = "fileselect"
    /\ last.alert = "Invalid steps file format."
    /\ Len(steps) = 2
    /\ activeStepId = steps[2].id
    /\ isLooping
    /\ loopEnd > loopStart

\* C15: once the rejection of a play request has been reported, isPlaying is
\* false again.
C15_RejectedPlayFallsBack == last.ev = "playrejected" => ~isPlaying

\* C16: for every pointer x, track left edge, track width and duration,
\* getSeekTime returns a time in [0, duration], the whole tick of
\* clamp((x - left) / width, 0, 1) * duration, and 0 when the width is 0 or
\* the duration is 0.
C16_SeekTimeClamped ==
    last.ev = "getSeekTime" =>
        LET x == last.clientX - last.left
            w == last.width
            d == last.duration
            t == last.time
        IN  /\ 0 <= t /\ t <= d
            /\ (w <= 0 \/ d = 0) => t = 0
            /\ (w > 0 /\ d > 0) =>
                    /\ w * t <= Max(0, Min(w, x)) * d
                    /\ Max(0, Min(w, x)) * d < w * (t + 1)

\* C17: whenever a position notification can be delivered, the registered
\* handler works with the current isLooping, loopStart and loopEnd: after a
\* change of any of the three no notification is handled with the values
\* from before it.
C17_ListenerIsCurrent ==
    Mounted => timeUpdateListener = Closure(isLooping, loopStart, loopEnd)

C17_Witness ==
    /\ phase = "ready"
    /\ last.ev = "timeupdate"
    /\ last.seek = loopStart
    /\ loopStart > 0
    /\ isLooping
    /\ timeUpdateListener = Closure(TRUE, loopStart, loopEnd)

\* C18: no two steps of the list have the same id, whatever sequence of Add
\* Step, import, delete and rename produced it, two Add Step at one clock
\* reading included.
C18_StepIdsUnique == \A i, j \in DOMAIN steps : steps[i].id = steps[j].id => i = j

\* C19: between the load of a source and its loadedmetadata event no handler
\* changes isLooping, loopStart, loopEnd or the active step, so the metadata
\* handler finds the loop state of the reset and rewrites no stored step.
C19_NoLoopChangeBeforeMetadata ==
    [][/\ (phase = "loading" /\ phase' = "loading")
            => UNCHANGED <<isLooping, loopStart, loopEnd, activeStepId>>
       /\ last'.ev = "loadedmetadata"
            => (~isLooping /\ loopStart = 0 /\ activeStepId = NoId /\ steps' = steps)]_vars

\* C20: a mousemove while the playhead is captured requests a seek and
\* changes neither loopStart nor loopEnd; while the start handle is captured
\* it changes at most loopStart and requests no seek; while the end handle is
\* captured it changes at most loopEnd and requests no seek.
C20_MoveRoutedToCapturedHandle ==
    [][last'.ev = "mousemove" =>
          /\ isDraggingPlayhead =>
                (last'.seek # NoTime /\ UNCHANGED <<loopStart, loopEnd>>)
          /\ isDraggingStart => (last'.seek = NoTime /\ UNCHANGED loopEnd)
          /\ isDraggingEnd => (last'.seek = NoTime /\ UNCHANGED loopStart)]_vars

\* C21: activeStepId is null or the id of a step in the list, in every state;
\* after an import or a delete it names no step that is gone.
C21_ActiveStepExists == activeStepId = NoId \/ activeStepId \in StepIds(steps)

\* C22: from the press on the start or end handle to the end of the gesture
\* (moves, release, and the click the release brings) no seek is requested
\* and the position of the video stays where it was.
C22_LoopHandleGestureNoSeek ==
    [][(/\ ~isDraggingPlayhead
        /\ isDraggingStart \/ isDraggingEnd
        /\ last'.ev \in {"mousemove", "mouseup", "mouseupclick"})
          => (last'.seek = NoTime /\ vTime' = vTime)]_vars

====
